---- MODULE Spec2Model ----
(***************************************************************************)
(* A model of hbinseek (src/src/hbinseek.py): a container made of three    *)
(* files (metadata snapshot, binary data file, structural log), one        *)
(* write-only session and one read-only session working on them.           *)
(*                                                                         *)
(* Text is a sequence of code points ("/" is 47, "A" is 65), bytes are a   *)
(* sequence of integers 0..255, a dict is a sequence of [k, v] entries in  *)
(* insertion order.  A stream opened for writing keeps what was written    *)
(* since the last flush in a buffer; a reader sees the bytes on disk.      *)
(***************************************************************************)
EXTENDS Integers, Sequences, FiniteSets, TLC

VARIABLES
    PY3_ONWARDS,     \* the interpreter the module was imported under
    sessions,        \* "w", "r" |-> the _HBinseek object of that mode
    metadata_file,   \* [exists, doc]   the metadata snapshot on disk
    binary_file,     \* [exists, data]  the bytes of the binary data file on disk
    log_file,        \* [exists, data]  the bytes of the structural log on disk
    written,         \* history: one entry per _write_array that reached the stream
    opens,           \* number of write-only sessions opened so far
    last             \* the last call: what it was given, what it returned or raised

vars == <<PY3_ONWARDS, sessions, metadata_file, binary_file, log_file, written, opens, last>>

-----------------------------------------------------------------------------
(* Bounds of the model *)

MaxGroups == 4        \* group objects a session creates besides the root
MaxArrays == 2        \* _write_array calls per write-only session
MaxAttrs == 1         \* successful set_attr calls per session
MaxOpens == 2         \* write-only sessions opened on the same three files

-----------------------------------------------------------------------------
(* Program constants *)

PACK_UNSIGNED_LONG_SIZE == 4      \* struct.calcsize(PACK_UNSIGNED_LONG), '<L'

-----------------------------------------------------------------------------
(* Text and bytes *)

RECURSIVE Flatten(_)
Flatten(ss) == IF ss = <<>> THEN <<>> ELSE Head(ss) \o Flatten(Tail(ss))

Reverse(s) == [i \in 1..Len(s) |-> s[Len(s) + 1 - i]]

Min(a, b) == IF a < b THEN a ELSE b

\* one code point encoded as UTF-8 (code points below 2^16)
Utf8Char(cp) ==
    IF cp < 128 THEN <<cp>>
    ELSE IF cp < 2048 THEN <<192 + (cp \div 64), 128 + (cp % 64)>>
    ELSE <<224 + (cp \div 4096), 128 + ((cp \div 64) % 64), 128 + (cp % 64)>>

\* text.encode('utf-8'); text is a sequence of code points
Encode(text) == Flatten([i \in 1..Len(text) |-> Utf8Char(text[i])])

\* struct.pack('<L', n): raises struct.error unless 0 <= n < 2^32
RECURSIVE LittleEndian(_, _)
LittleEndian(n, width) ==
    IF width = 0 THEN <<>> ELSE <<n % 256>> \o LittleEndian(n \div 256, width - 1)

RECURSIVE FromLittleEndian(_)
FromLittleEndian(bs) ==
    IF bs = <<>> THEN 0 ELSE Head(bs) + 256 * FromLittleEndian(Tail(bs))

PackUnsignedLong(n) == LittleEndian(n, PACK_UNSIGNED_LONG_SIZE)

\* str.split('/')
RECURSIVE Split(_, _)
Split(text, acc) ==
    IF text = <<>> THEN <<acc>>
    ELSE IF Head(text) = 47 THEN <<acc>> \o Split(Tail(text), <<>>)
    ELSE Split(Tail(text), Append(acc, Head(text)))

\* '//' in text
HasDoubleSlash(text) ==
    \E i \in 1..(Len(text) - 1) : text[i] = 47 /\ text[i + 1] = 47

EndsWithSlash(text) == Len(text) > 0 /\ text[Len(text)] = 47

BINSEEK_HEADER == <<37, 66, 73, 78, 83, 69, 69, 75, 32, 118, 48, 48, 49, 10>>
BINSEEKLOG_HEADER == <<37, 66, 73, 78, 83, 69, 69, 75, 76, 79, 71, 32, 118, 48, 48, 49, 10>>
ARR_TAG == <<65, 82, 82, 58>>         \* b'ARR:'
COLON == <<58>>                       \* b':'
NEWLINE == <<10>>                     \* b'\n'

-----------------------------------------------------------------------------
(* dict: insertion-ordered entries *)

DictHas(d, k) == \E i \in 1..Len(d) : d[i].k = k

DictGet(d, k) == d[CHOOSE i \in 1..Len(d) : d[i].k = k].v

DictSet(d, k, v) ==
    IF DictHas(d, k)
    THEN [i \in 1..Len(d) |-> IF d[i].k = k THEN [k |-> k, v |-> v] ELSE d[i]]
    ELSE Append(d, [k |-> k, v |-> v])

DictKeys(d) == {d[i].k : i \in 1..Len(d)}

-----------------------------------------------------------------------------
(* numpy arrays, as far as the container looks at them *)

\* the element types: dtype.str, dtype.itemsize, dtype.hasobject
DtypeStr(dtype) ==
    CASE dtype = "int16" -> <<60, 105, 50>>        \* '<i2'
      [] dtype = "int32" -> <<60, 105, 52>>        \* '<i4'
      [] dtype = "object" -> <<124, 79>>           \* '|O'

DtypeItemsize(dtype) ==
    CASE dtype = "int16" -> 2
      [] dtype = "int32" -> 4
      [] dtype = "object" -> 8

DtypeHasObject(dtype) == dtype = "object"

Dtypes == {"int16", "int32", "object"}

\* numpy.dtype(text)
DtypeFromStr(text) == CHOOSE dtype \in Dtypes : DtypeStr(dtype) = text

RECURSIVE Size(_)
Size(shape) == IF shape = <<>> THEN 1 ELSE Head(shape) * Size(Tail(shape))

\* An array: its dtype, its shape, the memory order it was built with and its
\* elements in logical (row-major index) order.  The elements are 1, 2, 3, ...
\* so that no two positions hold the same value.
Array(dtype, shape, layout) ==
    [dtype |-> dtype, shape |-> shape, layout |-> layout,
     elems |-> [i \in 1..Size(shape) |-> i]]

\* data.flags.f_contiguous: a column-major array, or a row-major one that is
\* column-major as well (no element, or at most one dimension longer than 1)
FContiguous(data) ==
    \/ data.layout = "F"
    \/ \E i \in 1..Len(data.shape) : data.shape[i] = 0
    \/ Cardinality({i \in 1..Len(data.shape) : data.shape[i] # 1}) <= 1

\* data.tobytes('C'): the elements in row-major order, whatever the layout
ToBytesC(data) ==
    Flatten([i \in 1..Len(data.elems) |->
                LittleEndian(data.elems[i], DtypeItemsize(data.dtype))])

\* numpy.fromstring(bytes_read, dtype=dtype): the flat elements
FromString(bytes, dtype) ==
    LET w == DtypeItemsize(dtype)
    IN [i \in 1..(Len(bytes) \div w) |->
            FromLittleEndian(SubSeq(bytes, (i - 1) * w + 1, i * w))]

\* position in row-major order of a multi-index, and back
RECURSIVE Ravel(_, _)
Ravel(idx, shape) ==
    IF idx = <<>> THEN 0
    ELSE LET n == Len(idx)
         IN Ravel(SubSeq(idx, 1, n - 1), SubSeq(shape, 1, n - 1)) * shape[n] + idx[n]

RECURSIVE Unravel(_, _)
Unravel(pos, shape) ==
    IF shape = <<>> THEN <<>>
    ELSE LET n == Len(shape)
         IN Append(Unravel(pos \div shape[n], SubSeq(shape, 1, n - 1)), pos % shape[n])

\* array.shape = shape[::-1]; array = array.transpose(): the element at index
\* idx of the result is the element at reversed idx of the flat data laid out
\* with the reversed shape
ReshapeReversedTranspose(flat, shape) ==
    [p \in 1..Len(flat) |->
        flat[Ravel(Reverse(Unravel(p - 1, shape)), Reverse(shape)) + 1]]

-----------------------------------------------------------------------------
(* Record codec *)

OrderOf(data) == IF FContiguous(data) THEN "F" ELSE "C"

OrderByte(order) == IF order = "F" THEN <<70>> ELSE <<67>>

\* struct.pack(PACK_UNSIGNED_LONG, n) succeeds: 0 <= n < 2^32
PackFits(n) == n >= 0 /\ (n \div 65536) < 65536

\* the numbers _write_array packs
PackedNumbers(group_name, array_name, data) ==
    <<Len(Encode(group_name)), Len(Encode(array_name)), Len(ToBytesC(data)),
      Len(Encode(DtypeStr(data.dtype))), Len(data.shape)>> \o data.shape

\* record_start of _write_array
RecordStartFields(group_name, array_name, data) ==
    ARR_TAG
    \o PackUnsignedLong(Len(Encode(group_name))) \o Encode(group_name) \o COLON
    \o PackUnsignedLong(Len(Encode(array_name))) \o Encode(array_name) \o COLON
    \o PackUnsignedLong(Len(ToBytesC(data))) \o COLON
    \o PackUnsignedLong(Len(Encode(DtypeStr(data.dtype)))) \o Encode(DtypeStr(data.dtype)) \o COLON
    \o PackUnsignedLong(Len(data.shape))
    \o Flatten([i \in 1..Len(data.shape) |-> PackUnsignedLong(data.shape[i])])
    \o COLON \o COLON

RecordStart(group_name, array_name, data) ==
    RecordStartFields(group_name, array_name, data) \o OrderByte(OrderOf(data))

-----------------------------------------------------------------------------
(* _Array *)

\* _Array.__init__ raises RuntimeError for an object dtype
ArrayInitRaises(dtype) == DtypeHasObject(dtype)

NewArray(array_name, array_record_offset, data_offset, dtype, shape, order, len_in_bytes) ==
    [name |-> array_name, record_offset |-> array_record_offset,
     data_offset |-> data_offset, dtype |-> dtype, shape |-> shape,
     order |-> order, bytes_len |-> len_in_bytes]

NoArray == NewArray(<<>>, 0, 0, "none", <<>>, "C", 0)

NoData == [dtype |-> "none", shape |-> <<>>, elems |-> <<>>]

\* _Array._to_json
ArrayToJson(array) ==
    [name |-> array.name, record_offset |-> array.record_offset,
     data_offset |-> array.data_offset, data_bytes_len |-> array.bytes_len,
     dtype |-> DtypeStr(array.dtype), order |-> array.order, shape |-> array.shape]

\* _Array._from_json
ArrayFromJson(json) ==
    NewArray(json.name, json.record_offset, json.data_offset,
             DtypeFromStr(json.dtype), json.shape, json.order, json.data_bytes_len)

\* the bytes binary_stream.seek(data_offset); binary_stream.read(bytes_len) returns
StreamRead(data, offset, n) ==
    IF offset >= Len(data) THEN <<>>
    ELSE SubSeq(data, offset + 1, Min(offset + n, Len(data)))

\* _Array.read_numpy past the mode check, on the bytes of the binary data file
ReadNumpyNoLengthCheck(array, data) ==
    LET bytes_read == StreamRead(data, array.data_offset, array.bytes_len)
        flat == FromString(bytes_read, array.dtype)
    IN [err |-> "ok", nread |-> Len(bytes_read),
        ret |-> [dtype |-> array.dtype, shape |-> array.shape,
                 elems |-> IF array.order = "F" /\ Len(flat) = Size(array.shape)
                           THEN ReshapeReversedTranspose(flat, array.shape)
                           ELSE flat]]

ReadNumpyBytes(array, data) ==
    LET bytes_read == StreamRead(data, array.data_offset, array.bytes_len)
        flat == FromString(bytes_read, array.dtype)
    IN IF Len(bytes_read) # array.bytes_len
       THEN [err |-> "IOError", nread |-> Len(bytes_read), ret |-> NoData]
       ELSE [err |-> "ok", nread |-> Len(bytes_read),
             ret |-> [dtype |-> array.dtype, shape |-> array.shape,
                      elems |-> IF array.order = "F"
                                THEN ReshapeReversedTranspose(flat, array.shape)
                                ELSE flat]]

-----------------------------------------------------------------------------
(* Attribute values: [kind, v], v a sequence of integers                    *)
(*   text  : the code points          bytes : the bytes                     *)
(*   float : the value in tenths      bool  : <<0>> or <<1>>                *)
(*   int   : <<sign, e, d>> for sign * (2^e + d), d in -1..1                *)
(*   ndarray, object : values of other classes                              *)

\* VALID_ATTR_TYPES, checked with isinstance: bool is a subclass of int
VALID_ATTR_TYPES == {"int", "bool", "float", "text", "bytes"}

\* struct.pack(PACK_LONG_LONG, value) succeeds: -2^63 <= value < 2^63
PackLongLongFits(value) ==
    \/ value.kind = "bool"
    \/ /\ value.kind = "int"
       /\ \/ value.v[2] < 63
          \/ value.v[2] = 63 /\ value.v[1] = 1 /\ value.v[3] < 0
          \/ value.v[2] = 63 /\ value.v[1] = -1 /\ value.v[3] <= 0

\* _write_set_attr raises struct.error: it builds the record (and writes it
\* nowhere); the integer branch is only taken before Python 3
WriteSetAttrRaises(py3, group_name, attr_name, attr_value) ==
    \/ ~PackFits(Len(Encode(group_name)))
    \/ ~PackFits(Len(Encode(attr_name)))
    \/ attr_value.kind = "text" /\ ~PackFits(Len(Encode(attr_value.v)))
    \/ attr_value.kind = "bytes" /\ ~PackFits(Len(attr_value.v))
    \/ /\ ~py3
       /\ attr_value.kind \in {"int", "bool"}
       /\ ~PackLongLongFits(attr_value)

-----------------------------------------------------------------------------
(* _Group and the group tree of a session.  The groups of a session are    *)
(* numbered in creation order; groups[1] is the root.                      *)

NewGroup(parent, group_name, group_path) ==
    [name |-> group_name, path |-> group_path, parent |-> parent,
     attrs |-> <<>>, arrays |-> <<>>, children_groups |-> <<>>]

\* _Group.__init__ raises RuntimeError before the group is linked to its parent
GroupInitRaises(group_path) == HasDoubleSlash(group_path)

\* _Group.__init__: the new object, registered in its parent
GroupInit(groups, parent, group_name, group_path) ==
    LET gid == Len(groups) + 1
        added == Append(groups, NewGroup(parent, group_name, group_path))
    IN IF parent = 0 THEN added
       ELSE [added EXCEPT ![parent].children_groups = DictSet(@, group_name, gid)]

\* the loop of _HBinseek.create_group over the parts of the path
RECURSIVE CreateGroupPartsNoLookup(_, _, _, _)
CreateGroupPartsNoLookup(s, parts, full_path, parent) ==
    IF parts = <<>> THEN [s |-> s, err |-> "ok", ret |-> parent]
    ELSE LET path == full_path \o Head(parts)
         IN IF GroupInitRaises(path)
            THEN [s |-> s, err |-> "RuntimeError", ret |-> 0]
            ELSE LET gid == Len(s.groups) + 1
                     s1 == [s EXCEPT
                              !.groups = GroupInit(s.groups, parent, Head(parts), path),
                              !.all_groups = (path :> gid) @@ @]
                 IN CreateGroupPartsNoLookup(s1, Tail(parts), path \o <<47>>, gid)

RECURSIVE CreateGroupParts(_, _, _, _)
CreateGroupParts(s, parts, full_path, parent) ==
    IF parts = <<>> THEN [s |-> s, err |-> "ok", ret |-> parent]
    ELSE LET path == full_path \o Head(parts)
         IN IF path \in DOMAIN s.all_groups
            THEN CreateGroupParts(s, Tail(parts), path \o <<47>>, s.all_groups[path])
            ELSE IF GroupInitRaises(path)
            THEN [s |-> s, err |-> "RuntimeError", ret |-> 0]
            ELSE LET gid == Len(s.groups) + 1
                     s1 == [s EXCEPT
                              !.groups = GroupInit(s.groups, parent, Head(parts), path),
                              !.all_groups = (path :> gid) @@ @]
                 IN CreateGroupParts(s1, Tail(parts), path \o <<47>>, gid)

\* _HBinseek.create_group
SessionCreateGroup(s, group_name) ==
    IF group_name = <<>> THEN [s |-> s, err |-> "ValueError", ret |-> 0]
    ELSE IF Head(group_name) # 47 THEN [s |-> s, err |-> "AssertionError", ret |-> 0]
    ELSE CreateGroupParts(s, Split(Tail(group_name), <<>>), <<47>>, 1)

\* _Group.create_group
GroupCreateGroup(s, gid, group_name) ==
    IF \E i \in 1..Len(group_name) : group_name[i] = 47
    THEN [s |-> s, err |-> "ValueError", ret |-> 0]
    ELSE LET path == s.groups[gid].path
         IN SessionCreateGroup(s, IF EndsWithSlash(path) THEN path \o group_name
                                  ELSE path \o <<47>> \o group_name)

\* _Group.set_attr, were the value stored before its class is checked
GroupSetAttrStoresFirst(py3, s, gid, attr_name, value) ==
    LET stored == [s EXCEPT !.groups[gid].attrs = DictSet(@, attr_name, value)]
    IN IF value.kind \notin VALID_ATTR_TYPES
       THEN [s |-> stored, err |-> "ValueError"]
       ELSE IF WriteSetAttrRaises(py3, s.groups[gid].name, attr_name, value)
       THEN [s |-> s, err |-> "struct.error"]
       ELSE [s |-> stored, err |-> "ok"]

\* _Group.set_attr
GroupSetAttr(py3, s, gid, attr_name, value) ==
    IF value.kind \notin VALID_ATTR_TYPES
    THEN [s |-> s, err |-> "ValueError"]
    ELSE IF WriteSetAttrRaises(py3, s.groups[gid].name, attr_name, value)
    THEN [s |-> s, err |-> "struct.error"]
    ELSE [s |-> [s EXCEPT !.groups[gid].attrs = DictSet(@, attr_name, value)],
          err |-> "ok"]

-----------------------------------------------------------------------------
(* Metadata snapshot: _to_json, json.dumps, json.load, _from_json *)

\* _Group._to_json: the tree of a group as dicts and lists
RECURSIVE GroupToJson(_, _)
GroupToJson(groups, gid) ==
    LET g == groups[gid]
    IN [children |-> [i \in 1..Len(g.children_groups) |->
                         GroupToJson(groups, g.children_groups[i].v)],
        name |-> g.name,
        attrs |-> g.attrs,
        arrays |-> [i \in 1..Len(g.arrays) |-> ArrayToJson(g.arrays[i].v)]]

\* bytes.decode('utf-8') for sequences of one- and two-byte characters
RECURSIVE Utf8Valid(_)
Utf8Valid(bytes) ==
    IF bytes = <<>> THEN TRUE
    ELSE IF Head(bytes) < 128 THEN Utf8Valid(Tail(bytes))
    ELSE /\ Head(bytes) >= 194 /\ Head(bytes) < 224
         /\ Len(bytes) >= 2 /\ bytes[2] >= 128 /\ bytes[2] < 192
         /\ Utf8Valid(Tail(Tail(bytes)))

RECURSIVE Decode(_)
Decode(bytes) ==
    IF bytes = <<>> THEN <<>>
    ELSE IF Head(bytes) < 128 THEN <<Head(bytes)>> \o Decode(Tail(bytes))
    ELSE <<(Head(bytes) - 192) * 64 + (bytes[2] - 128)>> \o Decode(Tail(Tail(bytes)))

\* json.dumps of one attribute value: "" when it is written, else what is raised.
\* Python 3 has no encoding for bytes; Python 2 decodes a str as UTF-8.
JsonValueError(py3, value) ==
    IF value.kind = "bytes"
    THEN IF py3 THEN "TypeError"
         ELSE IF Utf8Valid(value.v) THEN "" ELSE "UnicodeDecodeError"
    ELSE IF value.kind \in {"text", "int", "bool", "float"} THEN ""
    ELSE "TypeError"

\* the JSON value written for an attribute value
JsonValue(value) ==
    CASE value.kind = "text" -> [kind |-> "string", v |-> value.v]
      [] value.kind = "bytes" -> [kind |-> "string", v |-> Decode(value.v)]
      [] value.kind = "int" -> [kind |-> "integer", v |-> value.v]
      [] value.kind = "float" -> [kind |-> "real", v |-> value.v]
      [] value.kind = "bool" -> [kind |-> "boolean", v |-> value.v]

\* the Python value json.load builds from a JSON value
PyValue(json) ==
    CASE json.kind = "string" -> [kind |-> "text", v |-> json.v]
      [] json.kind = "integer" -> [kind |-> "int", v |-> json.v]
      [] json.kind = "real" -> [kind |-> "float", v |-> json.v]
      [] json.kind = "boolean" -> [kind |-> "bool", v |-> json.v]

RECURSIVE JsonDumpsError(_, _)
JsonDumpsError(py3, tree) ==
    LET bad == {i \in 1..Len(tree.attrs) : JsonValueError(py3, tree.attrs[i].v) # ""}
        badChild == {i \in 1..Len(tree.children) : JsonDumpsError(py3, tree.children[i]) # ""}
    IN IF bad # {}
       THEN JsonValueError(py3, tree.attrs[CHOOSE i \in bad : \A j \in bad : i <= j].v)
       ELSE IF badChild # {}
       THEN JsonDumpsError(py3, tree.children[CHOOSE i \in badChild : \A j \in badChild : i <= j])
       ELSE ""

\* json.dumps(metadata): the document written to the metadata file
RECURSIVE JsonDumps(_)
JsonDumps(tree) ==
    [children |-> [i \in 1..Len(tree.children) |-> JsonDumps(tree.children[i])],
     name |-> tree.name,
     attrs |-> [i \in 1..Len(tree.attrs) |->
                   [k |-> tree.attrs[i].k, v |-> JsonValue(tree.attrs[i].v)]],
     arrays |-> tree.arrays]

\* json.load(f): the dicts and lists of the document
RECURSIVE JsonLoad(_)
JsonLoad(doc) ==
    [children |-> [i \in 1..Len(doc.children) |-> JsonLoad(doc.children[i])],
     name |-> doc.name,
     attrs |-> [i \in 1..Len(doc.attrs) |->
                   [k |-> doc.attrs[i].k, v |-> PyValue(doc.attrs[i].v)]],
     arrays |-> doc.arrays]

\* the arrays loop of _Group._from_json
RECURSIVE ArraysFromJson(_, _)
ArraysFromJson(arrays, json_arrays) ==
    IF json_arrays = <<>> THEN arrays
    ELSE ArraysFromJson(DictSet(arrays, Head(json_arrays).name,
                                ArrayFromJson(Head(json_arrays))),
                        Tail(json_arrays))

\* _Group._from_json; ChildrenFromJson is its loop over json['children']
RECURSIVE GroupFromJson(_, _, _)
RECURSIVE ChildrenFromJson(_, _, _)
GroupFromJson(s, gid, json) ==
    LET s1 == [s EXCEPT !.groups[gid].name = json.name,
                        !.groups[gid].attrs = json.attrs,
                        !.groups[gid].arrays = ArraysFromJson(@, json.arrays)]
    IN IF \E i \in 1..Len(json.arrays) : ArrayInitRaises(DtypeFromStr(json.arrays[i].dtype))
       THEN [s |-> s1, err |-> "RuntimeError"]
       ELSE ChildrenFromJson(s1, gid, json.children)

ChildrenFromJson(s, gid, children) ==
    IF children = <<>> THEN [s |-> s, err |-> "ok"]
    ELSE LET made == GroupCreateGroup(s, gid, Head(children).name)
         IN IF made.err # "ok" THEN [s |-> made.s, err |-> made.err]
            ELSE LET filled == GroupFromJson(made.s, made.ret, Head(children))
                 IN IF filled.err # "ok" THEN filled
                    ELSE ChildrenFromJson(filled.s, gid, Tail(children))

-----------------------------------------------------------------------------
(* _HBinseek *)

\* no session object of that mode yet
NoSession ==
    [state |-> "none", mode |-> "", autoflush |-> FALSE, write_metadata |-> FALSE,
     loaded_info |-> FALSE, dirty |-> FALSE, groups |-> <<>>, all_groups |-> <<>>,
     binary_buf |-> <<>>, log_buf |-> <<>>, nwrites |-> 0, nattrs |-> 0,
     after_close |-> FALSE, pc |-> "idle"]

\* _HBinseek.__init__ up to the opening of the two streams; state is "open"
\* until close() has closed the streams; binary_buf and log_buf hold what was
\* written to a stream and not flushed; nwrites and nattrs count calls, and
\* after_close remembers that a read-only session was opened after the
\* write-only one closed; pc is "idle" between calls and names the next step
\* of flush() or close() while one of them runs step by step
NewSession(mode, autoflush, write_metadata) ==
    [state |-> "open", mode |-> mode, autoflush |-> autoflush,
     write_metadata |-> write_metadata, loaded_info |-> FALSE, dirty |-> FALSE,
     groups |-> GroupInit(<<>>, 0, <<47>>, <<47>>), all_groups |-> <<>>,
     binary_buf |-> <<>>, log_buf |-> <<>>, nwrites |-> 0, nattrs |-> 0,
     after_close |-> FALSE, pc |-> "idle"]

\* _HBinseek.__init__ for mode 'w', after the streams are opened: the headers
InitWrite(s) ==
    IF s.autoflush
    THEN [s |-> s, binary |-> BINSEEK_HEADER, log |-> BINSEEKLOG_HEADER]
    ELSE [s |-> [s EXCEPT !.binary_buf = BINSEEK_HEADER,
                          !.log_buf = BINSEEKLOG_HEADER,
                          !.dirty = TRUE],
          binary |-> <<>>, log |-> <<>>]

\* _HBinseek._load_metadata
LoadMetadata(s, metadata) ==
    IF s.loaded_info THEN [s |-> s, err |-> "ok"]
    ELSE IF metadata.exists /\ DOMAIN metadata.doc = {}
    THEN [s |-> s, err |-> "ValueError"]       \* json.load of an empty file
    ELSE IF metadata.exists
    THEN LET loaded == GroupFromJson(s, 1, JsonLoad(metadata.doc))
         IN [s |-> [loaded.s EXCEPT !.loaded_info = (loaded.err = "ok")],
             err |-> loaded.err]
    ELSE [s |-> [s EXCEPT !.loaded_info = TRUE], err |-> "ok"]

\* _HBinseek._check_writable raises RuntimeError
CheckWritableRaises(s) == s.mode # "w"

\* _HBinseek._write_array: the session, the bytes of the two files on disk,
\* what was raised, the _Array returned, whether the stream was reached
WriteArray(s, binary, log, group_name, array_name, data) ==
    LET data_as_bytes == ToBytesC(data)
        curr_offset == Len(binary) + Len(s.binary_buf)
        record_start == RecordStart(group_name, array_name, data)
        numbers == PackedNumbers(group_name, array_name, data)
        array == NewArray(array_name, curr_offset, curr_offset + Len(record_start),
                          data.dtype, data.shape, OrderOf(data), Len(data_as_bytes))
        binary_written == s.binary_buf \o record_start \o data_as_bytes
        log_written == s.log_buf \o record_start \o
                       (IF PackFits(curr_offset)
                        THEN PackUnsignedLong(curr_offset) \o NEWLINE ELSE <<>>)
        s1 == [s EXCEPT !.binary_buf = IF s.autoflush THEN <<>> ELSE binary_written,
                        !.log_buf = IF s.autoflush /\ PackFits(curr_offset)
                                    THEN <<>> ELSE log_written,
                        !.nwrites = @ + 1]
        binary1 == IF s.autoflush THEN binary \o binary_written ELSE binary
        log1 == IF s.autoflush /\ PackFits(curr_offset) THEN log \o log_written ELSE log
        unchanged == [s |-> s, binary |-> binary, log |-> log, ret |-> array,
                      reached |-> FALSE]
        done == [s |-> s1, binary |-> binary1, log |-> log1, ret |-> array,
                 reached |-> TRUE]
    IN IF CheckWritableRaises(s) THEN unchanged @@ [err |-> "RuntimeError"]
       ELSE IF s.state = "closed" THEN unchanged @@ [err |-> "ValueError"]
       ELSE IF \E i \in 1..Len(numbers) : ~PackFits(numbers[i])
       THEN unchanged @@ [err |-> "struct.error"]
       ELSE IF ~PackFits(curr_offset) THEN done @@ [err |-> "struct.error"]
       ELSE IF ArrayInitRaises(data.dtype) THEN done @@ [err |-> "RuntimeError"]
       ELSE done @@ [err |-> "ok"]

\* _Group.create_array
GroupCreateArray(s, binary, log, gid, array_name, data) ==
    LET w == WriteArray(s, binary, log, s.groups[gid].name, array_name, data)
    IN IF w.err # "ok" THEN w
       ELSE [w EXCEPT !.s.groups[gid].arrays = DictSet(@, array_name, w.ret)]

\* _HBinseek.create_array
SessionCreateArray(s, binary, log, group_name, array_name, data) ==
    LET made == SessionCreateGroup(s, group_name)
    IN IF made.err # "ok"
       THEN [s |-> made.s, binary |-> binary, log |-> log, ret |-> NoArray,
             reached |-> FALSE, err |-> made.err]
       ELSE GroupCreateArray(made.s, binary, log, made.ret, array_name, data)

\* _HBinseek._flush_metadata: "" and the new file, or what json.dumps raised
\* before the file was opened
FlushMetadata(py3, s, metadata) ==
    LET tree == GroupToJson(s.groups, 1)
        error == JsonDumpsError(py3, tree)
    IN IF error # "" THEN [err |-> error, metadata |-> metadata]
       ELSE [err |-> "ok", metadata |-> [exists |-> TRUE, doc |-> JsonDumps(tree)]]

\* _HBinseek.flush, were a stream's flush to write its buffer over the file
SessionFlushRewrites(py3, s, metadata, binary, log, write_metadata) ==
    LET unchanged == [s |-> s, metadata |-> metadata, binary |-> binary, log |-> log]
        meta == IF write_metadata THEN FlushMetadata(py3, s, metadata)
                ELSE [err |-> "ok", metadata |-> metadata]
    IN IF s.mode # "w" THEN unchanged @@ [err |-> "ok"]
       ELSE IF meta.err # "ok" THEN unchanged @@ [err |-> meta.err]
       ELSE IF s.state = "closed"
       THEN [unchanged EXCEPT !.metadata = meta.metadata] @@ [err |-> "ValueError"]
       ELSE [s |-> [s EXCEPT !.binary_buf = <<>>, !.log_buf = <<>>, !.dirty = FALSE],
             metadata |-> meta.metadata,
             binary |-> IF s.binary_buf = <<>> THEN binary ELSE s.binary_buf,
             log |-> IF s.log_buf = <<>> THEN log ELSE s.log_buf,
             err |-> "ok"]

\* _HBinseek.flush
SessionFlush(py3, s, metadata, binary, log, write_metadata) ==
    LET unchanged == [s |-> s, metadata |-> metadata, binary |-> binary, log |-> log]
        meta == IF write_metadata THEN FlushMetadata(py3, s, metadata)
                ELSE [err |-> "ok", metadata |-> metadata]
    IN IF s.mode # "w" THEN unchanged @@ [err |-> "ok"]
       ELSE IF meta.err # "ok" THEN unchanged @@ [err |-> meta.err]
       ELSE IF s.state = "closed"
       THEN [unchanged EXCEPT !.metadata = meta.metadata] @@ [err |-> "ValueError"]
       ELSE [s |-> [s EXCEPT !.binary_buf = <<>>, !.log_buf = <<>>, !.dirty = FALSE],
             metadata |-> meta.metadata,
             binary |-> binary \o s.binary_buf,
             log |-> log \o s.log_buf,
             err |-> "ok"]

\* _HBinseek.close: closing a stream writes its buffer out
SessionClose(py3, s, metadata, binary, log) ==
    LET meta == IF s.mode = "w" /\ s.write_metadata THEN FlushMetadata(py3, s, metadata)
                ELSE [err |-> "ok", metadata |-> metadata]
    IN IF meta.err # "ok"
       THEN [s |-> s, metadata |-> metadata, binary |-> binary, log |-> log,
             err |-> meta.err]
       ELSE [s |-> [s EXCEPT !.state = "closed", !.binary_buf = <<>>, !.log_buf = <<>>],
             metadata |-> meta.metadata,
             binary |-> binary \o s.binary_buf,
             log |-> log \o s.log_buf,
             err |-> "ok"]

\* _Array.read_numpy on a handle of session s
ReadNumpyNoModeCheck(s, array, binary) ==
    IF s.state = "closed" THEN [err |-> "ValueError", nread |-> 0, ret |-> NoData]
    ELSE ReadNumpyBytes(array, binary)

ReadNumpy(s, array, binary) ==
    IF s.mode # "r" THEN [err |-> "RuntimeError", nread |-> 0, ret |-> NoData]
    ELSE IF s.state = "closed" THEN [err |-> "ValueError", nread |-> 0, ret |-> NoData]
    ELSE ReadNumpyBytes(array, binary)

-----------------------------------------------------------------------------
(* The calls.  Every call records in last what it was given and what came  *)
(* of it: err is "ok" or the exception raised.                             *)

NoValue == [kind |-> "none", v |-> <<>>]

NoInput == [dtype |-> "none", shape |-> <<>>, layout |-> "C", elems |-> <<>>]

\* a file name argument left at its default, None
None == <<0>>

\* the arguments of open(): the mode and the three file names as passed
OpenArgs(mode, filename, binary_data_filename, log_filename) ==
    [mode |-> mode, filename |-> filename,
     binary_data_filename |-> binary_data_filename, log_filename |-> log_filename]

NoOpenArgs == OpenArgs("", <<>>, <<>>, <<>>)

Call(op, sid) ==
    [op |-> op, sess |-> sid, err |-> "ok", path |-> <<>>, group |-> 0,
     name |-> <<>>, value |-> NoValue, data |-> NoInput, array |-> NoArray,
     result |-> NoData, ret |-> 0, created |-> 0, nread |-> 0, flag |-> FALSE,
     args |-> NoOpenArgs]

\* os.path.splitext(filename)[0] of a name without directory: the name up to
\* its last dot, when something other than dots comes before that dot
SplitextRoot(filename) ==
    LET dots == {i \in 1..Len(filename) :
                   /\ filename[i] = 46
                   /\ \E j \in 1..(i - 1) : filename[j] # 46}
    IN IF dots = {} THEN filename
       ELSE SubSeq(filename, 1, (CHOOSE i \in dots : \A j \in dots : j <= i) - 1)

HDAT == <<46, 104, 100, 97, 116>>      \* '.hdat'
HLOG == <<46, 104, 108, 111, 103>>     \* '.hlog'

\* _HBinseek.__init__ down to the mode check: the names of the binary data
\* file and of the log, and what is raised before any file is touched.  An
\* explicit name is compared with its own class, which never holds.
InitNames(args) ==
    LET binary_explicit == args.binary_data_filename # None
        log_explicit == args.log_filename # None
        binary_data_filename == IF binary_explicit THEN args.binary_data_filename
                                ELSE SplitextRoot(args.filename) \o HDAT
        log_filename == IF log_explicit THEN args.log_filename
                        ELSE SplitextRoot(args.filename) \o HLOG
    IN [binary_data_filename |-> binary_data_filename,
        log_filename |-> log_filename,
        err |-> IF binary_explicit \/ log_explicit THEN "AssertionError"
                ELSE IF binary_data_filename = args.filename THEN "AssertionError"
                ELSE IF log_filename = args.filename THEN "AssertionError"
                ELSE IF binary_data_filename = log_filename THEN "AssertionError"
                ELSE IF args.mode \notin {"r", "w"} THEN "ValueError"
                ELSE "ok"]

Sids == {"w", "r"}

Live(sid) == sessions[sid].state # "none" /\ sessions[sid].pc = "idle"

\* the groups a caller can hold: every group but the root
GroupsOf(sid) == 2..Len(sessions[sid].groups)

NoFile == [exists |-> FALSE, data |-> <<>>]

NoMetadata == [exists |-> FALSE, doc |-> <<>>]

Init ==
    /\ PY3_ONWARDS \in BOOLEAN
    /\ sessions = [w |-> NoSession, r |-> NoSession]
    /\ metadata_file = NoMetadata
    /\ binary_file = NoFile
    /\ log_file = NoFile
    /\ written = <<>>
    /\ opens = 0
    /\ last = Call("import", "")

\* open(filename, mode) with a mode that is neither 'r' nor 'w'
OpenInvalidMode(mode) ==
    /\ mode \notin {"r", "w"}
    /\ last' = [Call("open", "") EXCEPT !.err = "ValueError"]
    /\ UNCHANGED <<PY3_ONWARDS, sessions, metadata_file, binary_file, log_file,
                   written, opens>>

\* the names of the three files of the model
MetadataName == <<99, 46, 104, 98, 105, 110>>      \* 'c.hbin'
BinaryName == <<99, 46, 104, 100, 97, 116>>        \* 'c.hdat'
LogName == <<99, 46, 104, 108, 111, 103>>          \* 'c.hlog'

\* _HBinseek.__init__ for mode 'w' from line 310 on: 'wb' empties both files
StartWriteAs(call, autoflush, write_metadata) ==
    /\ LET w == InitWrite(NewSession("w", autoflush, write_metadata))
       IN /\ sessions' = [sessions EXCEPT !["w"] = w.s]
          /\ binary_file' = [exists |-> TRUE, data |-> w.binary]
          /\ log_file' = [exists |-> TRUE, data |-> w.log]
    /\ written' = <<>>
    /\ opens' = opens + 1
    /\ last' = [call EXCEPT !.flag = autoflush]
    /\ UNCHANGED <<PY3_ONWARDS, metadata_file>>

\* open(filename, 'w', autoflush=..., write_metadata=...), the other names defaulted
StartWrite(autoflush, write_metadata) ==
    StartWriteAs([Call("open", "w") EXCEPT
                    !.args = OpenArgs("w", MetadataName, None, None)],
                 autoflush, write_metadata)

\* the first write-only session, on three names no file has
OpenWrite(autoflush, write_metadata) ==
    /\ sessions["w"].state = "none"
    /\ StartWrite(autoflush, write_metadata)

\* a later write-only session on the same names, the earlier one closed
ReopenWrite(autoflush, write_metadata) ==
    /\ sessions["w"].state = "closed"
    /\ opens < MaxOpens
    /\ StartWrite(autoflush, write_metadata)

\* _HBinseek.__init__ for mode 'r' from line 305 on
OpenReadAs(call) ==
    /\ LET loaded == LoadMetadata(NewSession("r", TRUE, TRUE), metadata_file)
           err == IF ~metadata_file.exists /\ ~log_file.exists THEN "OSError"
                  ELSE IF ~binary_file.exists \/ ~log_file.exists THEN "IOError"
                  ELSE loaded.err
       IN /\ sessions' = IF err = "ok"
                         THEN [sessions EXCEPT
                                 !["r"] = [loaded.s EXCEPT !.after_close =
                                              sessions["w"].state = "closed"]]
                         ELSE sessions
          /\ last' = [call EXCEPT !.err = err]
    /\ UNCHANGED <<PY3_ONWARDS, metadata_file, binary_file, log_file, written, opens>>

\* open(filename, 'r'), the other names defaulted
OpenRead ==
    OpenReadAs([Call("open", "r") EXCEPT
                  !.args = OpenArgs("r", MetadataName, None, None)])

\* open(filename, mode, binary_data_filename, log_filename) with any names:
\* rejected by the checks of lines 278-301, or carried on as the open of a
\* write-only or a read-only session on the three files of the model
OpenFiles(mode, filename, binary_data_filename, log_filename) ==
    LET args == OpenArgs(mode, filename, binary_data_filename, log_filename)
        names == InitNames(args)
        call == [Call("open", IF mode \in {"r", "w"} THEN mode ELSE "") EXCEPT
                   !.args = args]
    IN IF names.err # "ok"
       THEN /\ last' = [call EXCEPT !.err = names.err]
            /\ UNCHANGED <<PY3_ONWARDS, sessions, metadata_file, binary_file,
                           log_file, written, opens>>
       ELSE /\ filename = MetadataName
            /\ names.binary_data_filename = BinaryName
            /\ names.log_filename = LogName
            /\ IF mode = "w"
               THEN /\ sessions["w"].state = "none"
                    /\ StartWriteAs(call, TRUE, TRUE)
               ELSE OpenReadAs(call)

\* session.create_group(path)
CreateGroup(sid, path) ==
    /\ Live(sid)
    /\ LET made == SessionCreateGroup(sessions[sid], path)
       IN /\ Len(made.s.groups) <= MaxGroups + 1
          /\ sessions' = [sessions EXCEPT ![sid] = made.s]
          /\ last' = [Call("create_group", sid) EXCEPT
                        !.path = path, !.err = made.err, !.ret = made.ret,
                        !.created = Len(made.s.groups) - Len(sessions[sid].groups)]
    /\ UNCHANGED <<PY3_ONWARDS, metadata_file, binary_file, log_file, written, opens>>

\* group.create_group(name)
CreateSubgroup(sid, gid, name) ==
    /\ Live(sid)
    /\ gid \in GroupsOf(sid)
    /\ LET made == GroupCreateGroup(sessions[sid], gid, name)
       IN /\ Len(made.s.groups) <= MaxGroups + 1
          /\ sessions' = [sessions EXCEPT ![sid] = made.s]
          /\ last' = [Call("group.create_group", sid) EXCEPT
                        !.group = gid, !.name = name, !.err = made.err,
                        !.ret = made.ret,
                        !.created = Len(made.s.groups) - Len(sessions[sid].groups)]
    /\ UNCHANGED <<PY3_ONWARDS, metadata_file, binary_file, log_file, written, opens>>

\* what a create_array call leaves behind
AfterWrite(sid, w, call) ==
    /\ Len(w.s.groups) <= MaxGroups + 1
    /\ sessions' = [sessions EXCEPT ![sid] = w.s]
    /\ binary_file' = [binary_file EXCEPT !.data = w.binary]
    /\ log_file' = [log_file EXCEPT !.data = w.log]
    /\ written' = IF w.reached
                  THEN Append(written, [array |-> w.ret, data |-> call.data,
                                        group |-> call.group, stored |-> w.err = "ok"])
                  ELSE written
    /\ last' = [call EXCEPT !.err = w.err,
                            !.array = IF w.err = "ok" THEN w.ret ELSE NoArray,
                            !.created = Len(w.s.groups) - Len(sessions[sid].groups)]
    /\ UNCHANGED <<PY3_ONWARDS, metadata_file, opens>>

\* session.create_array(path, name, data)
CreateArray(sid, path, name, data) ==
    /\ Live(sid)
    /\ sessions[sid].nwrites < MaxArrays
    /\ LET w == SessionCreateArray(sessions[sid], binary_file.data, log_file.data,
                                   path, name, data)
       IN AfterWrite(sid, w, [Call("create_array", sid) EXCEPT
                                !.path = path, !.name = name, !.data = data,
                                !.group = IF path \in DOMAIN w.s.all_groups
                                          THEN w.s.all_groups[path] ELSE 0])

\* group.create_array(name, data)
CreateGroupArray(sid, gid, name, data) ==
    /\ Live(sid)
    /\ gid \in GroupsOf(sid)
    /\ sessions[sid].nwrites < MaxArrays
    /\ LET w == GroupCreateArray(sessions[sid], binary_file.data, log_file.data,
                                 gid, name, data)
       IN AfterWrite(sid, w, [Call("group.create_array", sid) EXCEPT
                                !.group = gid, !.name = name, !.data = data])

\* group.set_attr(name, value)
SetAttr(sid, gid, name, value) ==
    /\ Live(sid)
    /\ gid \in GroupsOf(sid)
    /\ sessions[sid].nattrs < MaxAttrs \/ value.kind \notin VALID_ATTR_TYPES
    /\ LET set == GroupSetAttr(PY3_ONWARDS, sessions[sid], gid, name, value)
       IN /\ sessions' = [sessions EXCEPT
                            ![sid] = IF set.err = "ok"
                                     THEN [set.s EXCEPT !.nattrs = @ + 1] ELSE set.s]
          /\ last' = [Call("set_attr", sid) EXCEPT
                        !.group = gid, !.name = name, !.value = value, !.err = set.err]
    /\ UNCHANGED <<PY3_ONWARDS, metadata_file, binary_file, log_file, written, opens>>

\* session.flush(write_metadata)
Flush(sid, write_metadata) ==
    /\ Live(sid)
    /\ LET f == SessionFlush(PY3_ONWARDS, sessions[sid], metadata_file,
                             binary_file.data, log_file.data, write_metadata)
       IN /\ sessions' = [sessions EXCEPT ![sid] = f.s]
          /\ metadata_file' = f.metadata
          /\ binary_file' = [binary_file EXCEPT !.data = f.binary]
          /\ log_file' = [log_file EXCEPT !.data = f.log]
          /\ last' = [Call("flush", sid) EXCEPT !.err = f.err, !.flag = write_metadata]
    /\ UNCHANGED <<PY3_ONWARDS, written, opens>>

\* session.close()
Close(sid) ==
    /\ Live(sid)
    /\ LET c == SessionClose(PY3_ONWARDS, sessions[sid], metadata_file,
                             binary_file.data, log_file.data)
       IN /\ sessions' = [sessions EXCEPT ![sid] = c.s]
          /\ metadata_file' = c.metadata
          /\ binary_file' = [binary_file EXCEPT !.data = c.binary]
          /\ log_file' = [log_file EXCEPT !.data = c.log]
          /\ last' = [Call("close", sid) EXCEPT
                        !.err = c.err, !.flag = sessions[sid].state = "open"]
    /\ UNCHANGED <<PY3_ONWARDS, written, opens>>

\* flush() and close() of a write-only session taken step by step, so that an
\* open() of a read-only session can fall between two steps.

\* flush(write_metadata) down to file(self._metadata_filename, 'wb'), which
\* leaves the metadata file empty
FlushBegin(sid, write_metadata) ==
    /\ Live(sid)
    /\ sessions[sid].mode = "w"
    /\ LET error == JsonDumpsError(PY3_ONWARDS, GroupToJson(sessions[sid].groups, 1))
       IN IF write_metadata /\ error # ""
          THEN /\ last' = [Call("flush", sid) EXCEPT !.err = error, !.flag = write_metadata]
               /\ UNCHANGED <<sessions, metadata_file>>
          ELSE /\ sessions' = [sessions EXCEPT ![sid].pc =
                                  IF write_metadata THEN "flush.metadata" ELSE "flush.binary"]
               /\ metadata_file' = IF write_metadata THEN [exists |-> TRUE, doc |-> <<>>]
                                   ELSE metadata_file
               /\ last' = [Call("flush.begin", sid) EXCEPT !.flag = write_metadata]
    /\ UNCHANGED <<PY3_ONWARDS, binary_file, log_file, written, opens>>

\* close() down to file(self._metadata_filename, 'wb')
CloseBegin(sid) ==
    /\ Live(sid)
    /\ sessions[sid].mode = "w"
    /\ LET write_metadata == sessions[sid].write_metadata
           error == JsonDumpsError(PY3_ONWARDS, GroupToJson(sessions[sid].groups, 1))
       IN IF write_metadata /\ error # ""
          THEN /\ last' = [Call("close", sid) EXCEPT !.err = error]
               /\ UNCHANGED <<sessions, metadata_file>>
          ELSE /\ sessions' = [sessions EXCEPT ![sid].pc =
                                  IF write_metadata THEN "close.metadata" ELSE "close.binary"]
               /\ metadata_file' = IF write_metadata THEN [exists |-> TRUE, doc |-> <<>>]
                                   ELSE metadata_file
               /\ last' = [Call("close.begin", sid) EXCEPT
                             !.flag = sessions[sid].state = "open"]
    /\ UNCHANGED <<PY3_ONWARDS, binary_file, log_file, written, opens>>

\* metadata_stream.write(dumped) and the end of the with block
WriteMetadataStep(sid) ==
    /\ sessions[sid].pc \in {"flush.metadata", "close.metadata"}
    /\ metadata_file' = FlushMetadata(PY3_ONWARDS, sessions[sid], metadata_file).metadata
    /\ sessions' = [sessions EXCEPT ![sid].pc =
                       IF @ = "flush.metadata" THEN "flush.binary" ELSE "close.binary"]
    /\ last' = [Call("metadata.write", sid) EXCEPT !.flag = sessions[sid].pc = "flush.metadata"]
    /\ UNCHANGED <<PY3_ONWARDS, binary_file, log_file, written, opens>>

\* self._binary_stream.flush() of flush(), self._binary_stream.close() of close()
BinaryStreamStep(sid) ==
    /\ sessions[sid].pc \in {"flush.binary", "close.binary"}
    /\ LET s == sessions[sid]
           raises == s.pc = "flush.binary" /\ s.state = "closed"
       IN /\ binary_file' = [binary_file EXCEPT !.data = @ \o s.binary_buf]
          /\ sessions' = [sessions EXCEPT
                            ![sid].binary_buf = <<>>,
                            ![sid].pc = IF raises THEN "idle"
                                        ELSE IF s.pc = "flush.binary" THEN "flush.log"
                                        ELSE "close.log"]
          /\ last' = IF raises THEN [Call("flush", sid) EXCEPT !.err = "ValueError"]
                     ELSE [Call("binary.flush", sid) EXCEPT !.flag = s.pc = "flush.binary"]
    /\ UNCHANGED <<PY3_ONWARDS, metadata_file, log_file, written, opens>>

\* self._log_stream.flush() and self._dirty = False of flush(),
\* self._log_stream.close() of close(): the call returns
LogStreamStep(sid) ==
    /\ sessions[sid].pc \in {"flush.log", "close.log"}
    /\ LET s == sessions[sid]
       IN /\ log_file' = [log_file EXCEPT !.data = @ \o s.log_buf]
          /\ sessions' = [sessions EXCEPT
                            ![sid].log_buf = <<>>,
                            ![sid].pc = "idle",
                            ![sid].dirty = IF s.pc = "flush.log" THEN FALSE ELSE @,
                            ![sid].state = IF s.pc = "close.log" THEN "closed" ELSE @]
          /\ last' = IF s.pc = "flush.log" THEN Call("flush", sid)
                     ELSE [Call("close", sid) EXCEPT !.flag = s.state = "open"]
    /\ UNCHANGED <<PY3_ONWARDS, metadata_file, binary_file, written, opens>>

\* group.get_array(name).read_numpy()
ReadArray(sid, gid, name) ==
    /\ Live(sid)
    /\ gid \in GroupsOf(sid)
    /\ DictHas(sessions[sid].groups[gid].arrays, name)
    /\ LET array == DictGet(sessions[sid].groups[gid].arrays, name)
           read == ReadNumpy(sessions[sid], array, binary_file.data)
       IN last' = [Call("read_numpy", sid) EXCEPT
                     !.group = gid, !.name = name, !.array = array,
                     !.err = read.err, !.result = read.ret, !.nread = read.nread]
    /\ UNCHANGED <<PY3_ONWARDS, sessions, metadata_file, binary_file, log_file,
                   written, opens>>

-----------------------------------------------------------------------------------------------------------------------------------------------------
(* The inputs of the calls *)

PathA == <<47, 65>>                    \* "/A"
PathAB == <<47, 65, 47, 66>>           \* "/A/B"
PathCB == <<47, 67, 47, 66>>           \* "/C/B"
PathADoubleB == <<47, 65, 47, 47, 66>> \* "/A//B"
PathRoot == <<47>>                     \* "/"
NameB == <<66>>                        \* "B"
NameAB == <<65, 47, 66>>               \* "A/B"
NameX == <<120>>                       \* "x"
NameY == <<121>>                       \* "y"
NameK == <<107>>                       \* "k"

Int16x3 == Array("int16", <<3>>, "C")          \* numpy.array([1, 2, 3], dtype=int16)
Int32x2x2 == Array("int32", <<2, 2>>, "C")
Int16x2x3F == Array("int16", <<2, 3>>, "F")    \* numpy.asfortranarray(...)
Int16x0 == Array("int16", <<0>>, "C")          \* no element
Objectx1 == Array("object", <<1>>, "C")        \* numpy.array([Dummy()])

Text == [kind |-> "text", v |-> <<97, 233>>]       \* 'a' and U+00E9
BytesA == [kind |-> "bytes", v |-> <<97>>]         \* b'a'
BytesFF == [kind |-> "bytes", v |-> <<255>>]       \* b'\xff'
Double == [kind |-> "float", v |-> <<15>>]         \* 1.5
Int2p32 == [kind |-> "int", v |-> <<1, 32, 0>>]    \* 2**32
Int2p63 == [kind |-> "int", v |-> <<1, 63, 0>>]    \* 2**63
IntMin == [kind |-> "int", v |-> <<-1, 63, 0>>]    \* -2**63
True == [kind |-> "bool", v |-> <<1>>]
NdArray == [kind |-> "ndarray", v |-> <<1, 2, 3>>] \* numpy.array([1, 2, 3])
Dummy == [kind |-> "object", v |-> <<>>]           \* Dummy()

-----------------------------------------------------------------------------------------------------------------------------------------------------
(* Spec: a write-only session and, beside it, a read-only session that     *)
(* opens, reads and closes                                                 *)

Next ==
    \/ \E mode \in {"a"} : OpenInvalidMode(mode)
    \/ \E autoflush \in BOOLEAN : OpenWrite(autoflush, TRUE)
    \/ OpenRead
    \/ \E path \in {PathA, PathAB} : CreateGroup("w", path)
    \/ CreateArray("w", PathA, NameX, Int16x3)
    \/ \E value \in {Text, Int2p32} : SetAttr("w", 2, NameK, value)
    \/ Flush("w", TRUE)
    \/ \E sid \in Sids : Close(sid)
    \/ \E sid \in Sids : ReadArray(sid, 2, NameX)

Spec == Init /\ [][Next]_vars

(* SpecRoundTrip: arrays of several shapes, element types and memory orders *)
(* written, closed and read back                                            *)

NextRoundTrip ==
    \/ \E autoflush \in BOOLEAN : OpenWrite(autoflush, TRUE)
    \/ \E name \in {NameX, NameY},
          data \in {Int16x3, Int32x2x2, Int16x2x3F, Int16x0} :
          CreateArray("w", PathA, name, data)
    \/ Flush("w", TRUE)
    \/ \E sid \in Sids : Close(sid)
    \/ OpenRead
    \/ \E name \in {NameX, NameY} : ReadArray("r", 2, name)

SpecRoundTrip == Init /\ [][NextRoundTrip]_vars

(* SpecWriter: one write-only session writing arrays and attributes and    *)
(* flushing                                                                *)

NextWriter ==
    \/ \E autoflush \in BOOLEAN, write_metadata \in BOOLEAN :
          OpenWrite(autoflush, write_metadata)
    \/ \E path \in {PathA, PathAB} : CreateGroup("w", path)
    \/ \E gid \in 2..3, data \in {Int16x3, Objectx1} :
          CreateGroupArray("w", gid, NameX, data)
    \/ \E gid \in 2..3 : SetAttr("w", gid, NameK, Int2p32)
    \/ \E write_metadata \in BOOLEAN : Flush("w", write_metadata)
    \/ Close("w")

SpecWriter == Init /\ [][NextWriter]_vars

(* SpecWriteOnlyRead: read_numpy tried on the handles of a write-only      *)
(* session, before and after a flush and after close                       *)

NextWriteOnlyRead ==
    \/ \E autoflush \in BOOLEAN : OpenWrite(autoflush, TRUE)
    \/ \E name \in {NameX, NameY}, data \in {Int16x3, Int32x2x2} :
          CreateArray("w", PathA, name, data)
    \/ Flush("w", TRUE)
    \/ Close("w")
    \/ \E name \in {NameX, NameY} : ReadArray("w", 2, name)

SpecWriteOnlyRead == Init /\ [][NextWriteOnlyRead]_vars

(* SpecAttrs: attribute values of every class, set in either session *)

NextAttrs ==
    \/ OpenWrite(TRUE, TRUE)
    \/ CreateGroup("w", PathA)
    \/ CreateArray("w", PathA, NameX, Int16x3)
    \/ \E sid \in Sids,
          value \in {Text, BytesA, BytesFF, Double, Int2p32, Int2p63, IntMin, True,
                     NdArray, Dummy} :
          SetAttr(sid, 2, NameK, value)
    \/ Flush("w", TRUE)
    \/ \E sid \in Sids : Close(sid)
    \/ OpenRead

SpecAttrs == Init /\ [][NextAttrs]_vars

(* SpecReadOnly: a container written and closed, then a read-only session  *)
(* on which every operation is tried                                       *)

NextReadOnly ==
    \/ OpenWrite(TRUE, TRUE)
    \/ CreateArray("w", PathA, NameX, Int16x3)
    \/ Close("w")
    \/ OpenRead
    \/ \E path \in {PathA, PathAB} : CreateGroup("r", path)
    \/ \E gid \in 2..3 : CreateSubgroup("r", gid, NameB)
    \/ \E path \in {PathA, PathAB} : CreateArray("r", path, NameX, Int16x3)
    \/ \E gid \in 2..3 : CreateGroupArray("r", gid, NameY, Int16x3)
    \/ \E gid \in 2..3, value \in {Text, Int2p32} : SetAttr("r", gid, NameK, value)
    \/ Flush("r", TRUE)
    \/ Close("r")
    \/ ReadArray("r", 2, NameX)

SpecReadOnly == Init /\ [][NextReadOnly]_vars

(* SpecGroups: paths of every form, given to create_group between other    *)
(* operations, before and after close                                      *)

NextGroups ==
    \/ OpenWrite(TRUE, TRUE)
    \/ \E path \in {PathA, PathAB, PathCB, PathADoubleB, PathRoot, <<>>} :
          CreateGroup("w", path)
    \/ \E gid \in 2..3, name \in {NameB, NameAB} : CreateSubgroup("w", gid, name)
    \/ CreateArray("w", PathAB, NameX, Int16x3)
    \/ Close("w")

SpecGroups == Init /\ [][NextGroups]_vars

(* SpecReopen: the container is written, closed and opened for writing     *)
(* again while a read-only session holds or loads the earlier snapshot     *)

NextReopen ==
    \/ \E autoflush \in BOOLEAN : OpenWrite(autoflush, TRUE)
    \/ ReopenWrite(TRUE, TRUE)
    \/ \E data \in {Int16x3, Int16x0} : CreateArray("w", PathA, NameX, data)
    \/ \E sid \in Sids : Close(sid)
    \/ OpenRead
    \/ ReadArray("r", 2, NameX)

SpecReopen == Init /\ [][NextReopen]_vars

(* SpecOpen: open() called with every combination of mode and file names,  *)
(* before, while and after a container is written                          *)

NextOpen ==
    \/ \E mode \in {"r", "w", "a"},
          filename \in {MetadataName, BinaryName},
          binary_data_filename \in {None, BinaryName, MetadataName},
          log_filename \in {None, LogName, BinaryName} :
          OpenFiles(mode, filename, binary_data_filename, log_filename)
    \/ CreateArray("w", PathA, NameX, Int16x3)
    \/ Flush("w", TRUE)
    \/ \E sid \in Sids : Close(sid)

SpecOpen == Init /\ [][NextOpen]_vars

(* SpecRejectedAttr: values of allowed and of other classes set as          *)
(* attributes of a group that already holds data, flushed or not           *)

NextRejectedAttr ==
    \/ \E autoflush \in BOOLEAN : OpenWrite(autoflush, TRUE)
    \/ CreateGroup("w", PathAB)
    \/ CreateArray("w", PathA, NameX, Int16x3)
    \/ \E gid \in 2..3, value \in {Text, Int2p32, True, NdArray, Dummy} :
          SetAttr("w", gid, NameK, value)
    \/ Flush("w", TRUE)
    \/ Close("w")

SpecRejectedAttr == Init /\ [][NextRejectedAttr]_vars

(* SpecRecords: array records written on groups of several depths, two of  *)
(* them with the same last segment                                         *)

NextRecords ==
    \/ \E autoflush \in BOOLEAN : OpenWrite(autoflush, TRUE)
    \/ \E path \in {PathA, PathAB, PathCB}, data \in {Int16x3, Int32x2x2} :
          CreateArray("w", path, NameX, data)
    \/ \E gid \in 2..5 : SetAttr("w", gid, NameK, Text)
    \/ Flush("w", TRUE)
    \/ Close("w")

SpecRecords == Init /\ [][NextRecords]_vars

(* SpecClosed: every operation tried on a write-only and on a read-only    *)
(* session, their groups and handles, before and after close()             *)

NextClosed ==
    \/ OpenWrite(TRUE, TRUE)
    \/ OpenRead
    \/ \E sid \in Sids : Close(sid)
    \/ \E sid \in Sids, path \in {PathA, PathAB} : CreateGroup(sid, path)
    \/ CreateArray("w", PathA, NameX, Int16x3)
    \/ \E sid \in Sids : CreateGroupArray(sid, 2, NameY, Int16x3)
    \/ \E sid \in Sids : SetAttr(sid, 2, NameK, Text)
    \/ \E sid \in Sids : Flush(sid, TRUE)
    \/ \E sid \in Sids : ReadArray(sid, 2, NameX)

SpecClosed == Init /\ [][NextClosed]_vars

(* SpecNoMetadata: a write-only session opened with write_metadata=False,  *)
(* flushed with flush() and closed, and a read-only session opened on it   *)

NextNoMetadata ==
    \/ \E autoflush \in BOOLEAN : OpenWrite(autoflush, FALSE)
    \/ \E path \in {PathA, PathAB} : CreateGroup("w", path)
    \/ \E name \in {NameX, NameY} : CreateArray("w", PathA, name, Int16x3)
    \/ \E gid \in 2..3 : SetAttr("w", gid, NameK, Text)
    \/ Flush("w", TRUE)
    \/ \E sid \in Sids : Close(sid)
    \/ OpenRead

SpecNoMetadata == Init /\ [][NextNoMetadata]_vars

(* SpecSteps: a write-only session whose flush() and close() run step by   *)
(* step, and a read-only session that opens, reads and closes between the  *)
(* steps                                                                   *)

NextSteps ==
    \/ \E autoflush \in BOOLEAN : OpenWrite(autoflush, TRUE)
    \/ \E name \in {NameX, NameY} : CreateArray("w", PathA, name, Int16x3)
    \/ SetAttr("w", 2, NameK, Text)
    \/ \E write_metadata \in BOOLEAN : FlushBegin("w", write_metadata)
    \/ CloseBegin("w")
    \/ WriteMetadataStep("w")
    \/ BinaryStreamStep("w")
    \/ LogStreamStep("w")
    \/ OpenRead
    \/ \E name \in {NameX, NameY} : ReadArray("r", 2, name)
    \/ Close("r")

SpecSteps == Init /\ [][NextSteps]_vars

-----------------------------------------------------------------------------
(* The claims *)

WriteCalls ==
    {"create_group", "group.create_group", "create_array", "group.create_array",
     "set_attr"}

\* the handles create_array stored, in call order
Stored == SelectSeq(written, LAMBDA e : e.stored)

\* C1: an array written in a write-only session, closed, reopened read-only
\* and read with read_numpy comes back with the shape, the element type and
\* the element at every index it was written with.
C1_RoundTrip ==
    \A i \in 1..Len(written) :
        ( /\ last.op = "read_numpy" /\ last.sess = "r"
          /\ sessions["w"].state = "closed" /\ sessions["r"].after_close
          /\ sessions["r"].state = "open"
          /\ written[i].stored /\ written[i].array = last.array )
        => /\ last.err = "ok"
           /\ last.result.dtype = written[i].data.dtype
           /\ last.result.shape = written[i].data.shape
           /\ last.result.elems = written[i].data.elems

\* a group of the write-only session that holds an attribute or an array
HoldsData(g) == g.attrs # <<>> \/ g.arrays # <<>>

\* the read-only session shows group g with its attribute and array names,
\* and every array of it can be read
ReaderShows(g) ==
    /\ g.path \in DOMAIN sessions["r"].all_groups
    /\ LET rg == sessions["r"].groups[sessions["r"].all_groups[g.path]]
       IN /\ DictKeys(rg.attrs) = DictKeys(g.attrs)
          /\ DictKeys(rg.arrays) = DictKeys(g.arrays)
          /\ \A i \in 1..Len(rg.arrays) :
                ReadNumpy(sessions["r"], rg.arrays[i].v, binary_file.data).err = "ok"

\* C2: when every write of the open write-only session has been flushed (by
\* autoflush or by flush()), a read-only session opened then sees each written
\* group with its attributes and arrays, and can read the arrays.
C2_FlushedVisible ==
    ( /\ last.op = "open" /\ last.sess = "r" /\ last.err = "ok"
      /\ sessions["w"].state = "open"
      /\ sessions["w"].binary_buf = <<>> /\ sessions["w"].log_buf = <<>> )
    => \A gid \in 2..Len(sessions["w"].groups) :
          HoldsData(sessions["w"].groups[gid]) => ReaderShows(sessions["w"].groups[gid])

\* C3: the first handle starts right after the file header, every handle's
\* data starts right after its record header, and every later handle starts
\* where the data of the handle before it ends.
C3_OffsetsTile ==
    sessions["w"].state # "none" =>
        /\ Stored # <<>> => Stored[1].array.record_offset = Len(BINSEEK_HEADER)
        /\ \A i \in 1..Len(Stored) :
              Stored[i].array.data_offset =
                 Stored[i].array.record_offset
                 + Len(RecordStart(sessions["w"].groups[Stored[i].group].name,
                                   Stored[i].array.name, Stored[i].data))
        /\ \A i \in 1..(Len(Stored) - 1) :
              Stored[i + 1].array.record_offset =
                 Stored[i].array.data_offset + Stored[i].array.bytes_len

\* C4: in a read-only session every write operation raises the usage error
\* and leaves the group map, the groups and the three files as they were.
C4_ReadOnlyRejectsWrites ==
    [][ (last'.sess = "r" /\ last'.op \in WriteCalls)
        => /\ last'.err = "RuntimeError"
           /\ sessions'["r"].groups = sessions["r"].groups
           /\ sessions'["r"].all_groups = sessions["r"].all_groups
           /\ UNCHANGED <<metadata_file, binary_file, log_file>> ]_vars

\* C5: in a write-only session read_numpy raises the usage error on every
\* handle, flushed or not, and reads no byte of the binary data file.
C5_WriteOnlyReadRejected ==
    (last.op = "read_numpy" /\ last.sess = "w")
    => last.err = "RuntimeError" /\ last.nread = 0 /\ last.result = NoData

\* C5 happens: read_numpy on a stored handle whose bytes are all on disk
C5_Witness ==
    /\ last.op = "read_numpy" /\ last.sess = "w"
    /\ sessions["w"].state = "open"
    /\ last.array.bytes_len > 0
    /\ Len(binary_file.data) >= last.array.data_offset + last.array.bytes_len

\* C6: in an open write-only session the dirty flag is true exactly when
\* bytes written to the binary data file or to the log are not flushed.
C6_DirtyIffUnflushed ==
    sessions["w"].state = "open" =>
        ( sessions["w"].dirty
          <=> (sessions["w"].binary_buf # <<>> \/ sessions["w"].log_buf # <<>>) )

\* text, bytes, a double, or an integer of the signed 64-bit range
AllowedAttr(value) ==
    \/ value.kind \in {"text", "bytes", "float"}
    \/ /\ value.kind = "int"
       /\ \/ value.v[2] < 63
          \/ value.v[2] = 63 /\ value.v[1] = 1 /\ value.v[3] < 0
          \/ value.v[2] = 63 /\ value.v[1] = -1 /\ value.v[3] <= 0

\* C7: set_attr accepts a value if and only if it is text, bytes, a double
\* or an integer of the signed 64-bit range.
C7_AttrTypeGate ==
    last.op = "set_attr" => (last.err = "ok" <=> AllowedAttr(last.value))

\* a path that starts with "/" and has no empty segment
WellFormed(path) ==
    /\ Len(path) >= 2 /\ path[1] = 47 /\ path[Len(path)] # 47
    /\ ~HasDoubleSlash(path)

\* the paths of the groups down to path: "/A", "/A/B" for "/A/B"
Ancestors(path) ==
    {SubSeq(path, 1, n) : n \in {m \in 2..Len(path) : m = Len(path) \/ path[m + 1] = 47}}

\* C8: create_group of a well-formed path succeeds and returns the group of
\* that path, with every group above it in the map; when the path is in the
\* map already it returns the group that is there and creates nothing: the
\* groups, their child mappings and the map stay as they were.
C8_CreateGroupIdempotent ==
    [][ \A sid \in Sids :
          (last'.op = "create_group" /\ last'.sess = sid /\ WellFormed(last'.path))
          => /\ last'.err = "ok"
             /\ Ancestors(last'.path) \subseteq DOMAIN sessions'[sid].all_groups
             /\ last'.ret = sessions'[sid].all_groups[last'.path]
             /\ sessions'[sid].groups[last'.ret].path = last'.path
             /\ last'.path \in DOMAIN sessions[sid].all_groups
                => /\ last'.ret = sessions[sid].all_groups[last'.path]
                   /\ sessions'[sid].groups = sessions[sid].groups
                   /\ sessions'[sid].all_groups = sessions[sid].all_groups ]_vars

\* C8 happens: "/A/B" asked for again after an array was written in it
C8_Witness ==
    /\ last.op = "create_group" /\ last.path = PathAB /\ last.err = "ok"
    /\ last.created = 0
    /\ sessions["w"].groups[last.ret].arrays # <<>>

\* equal attribute values: == of the interpreter, which before Python 3 also
\* holds between a str and the unicode of the same ASCII characters
AttrEq(py3, a, b) ==
    \/ a.kind = b.kind /\ a.v = b.v
    \/ /\ ~py3 /\ {a.kind, b.kind} = {"text", "bytes"} /\ a.v = b.v
       /\ \A i \in 1..Len(a.v) : a.v[i] < 128

\* the read-only session holds the groups of the write-only session, with
\* equal attributes and equal array handles
SameTree ==
    /\ DOMAIN sessions["r"].all_groups = DOMAIN sessions["w"].all_groups
    /\ \A path \in DOMAIN sessions["w"].all_groups :
          LET g == sessions["w"].groups[sessions["w"].all_groups[path]]
              rg == sessions["r"].groups[sessions["r"].all_groups[path]]
          IN /\ DictKeys(rg.attrs) = DictKeys(g.attrs)
             /\ \A k \in DictKeys(g.attrs) :
                   AttrEq(PY3_ONWARDS, DictGet(rg.attrs, k), DictGet(g.attrs, k))
             /\ DictKeys(rg.arrays) = DictKeys(g.arrays)
             /\ \A k \in DictKeys(g.arrays) : DictGet(rg.arrays, k) = DictGet(g.arrays, k)

\* every attribute of the write-only session is of one of the four kinds
FourKindsOnly ==
    \A gid \in 1..Len(sessions["w"].groups) :
       \A i \in 1..Len(sessions["w"].groups[gid].attrs) :
          AllowedAttr(sessions["w"].groups[gid].attrs[i].v)

\* C9: with attributes of the four kinds, close() of a write-only session
\* that writes metadata succeeds, and a read-only session opened afterwards
\* holds the same groups, attributes and array handles.
C9_MetadataRoundTrip ==
    /\ ( /\ last.op = "close" /\ last.sess = "w" /\ last.flag
         /\ sessions["w"].write_metadata /\ FourKindsOnly )
       => last.err = "ok"
    /\ ( /\ last.op = "open" /\ last.sess = "r" /\ last.err = "ok"
         /\ sessions["w"].state = "closed" /\ sessions["w"].write_metadata
         /\ FourKindsOnly )
       => SameTree

\* C10 as claimed: read_numpy in an open read-only session raises the
\* corruption error whenever the binary data file is shorter than
\* data_offset + bytes_len.
C10_ShortFileDetected ==
    ( /\ last.op = "read_numpy" /\ last.sess = "r"
      /\ sessions["r"].state = "open"
      /\ Len(binary_file.data) < last.array.data_offset + last.array.bytes_len )
    => last.err = "IOError"

\* C10, amended: read_numpy in an open read-only session raises the
\* corruption error whenever bytes_len > 0 and the binary data file is shorter
\* than data_offset + bytes_len, and an array it returns is built from exactly
\* bytes_len bytes.
C10_ShortReadDetected ==
    ( /\ last.op = "read_numpy" /\ last.sess = "r"
      /\ sessions["r"].state = "open" )
    => /\ ( /\ last.array.bytes_len > 0
            /\ Len(binary_file.data) < last.array.data_offset + last.array.bytes_len )
          => last.err = "IOError" /\ last.result = NoData
       /\ last.err = "ok" => last.nread = last.array.bytes_len

\* C10 happens: a handle with data whose bytes are no longer in the file
C10_Witness ==
    /\ last.op = "read_numpy" /\ last.sess = "r" /\ last.err = "IOError"
    /\ last.array.bytes_len > 0
    /\ Len(binary_file.data) < last.array.data_offset + last.array.bytes_len


\* the three names an open() call ends up with, defaults filled in
ResolvedNames(args) ==
    <<args.filename,
      IF args.binary_data_filename = None THEN SplitextRoot(args.filename) \o HDAT
      ELSE args.binary_data_filename,
      IF args.log_filename = None THEN SplitextRoot(args.filename) \o HLOG
      ELSE args.log_filename>>

\* C11: open() is rejected when the mode is neither 'r' nor 'w' or two of the
\* three file names are equal, and a request with a valid mode and three
\* pairwise distinct names, defaulted or explicit, is accepted (a read-only
\* one provided the metadata file or the log exists).
C11_OpenAcceptance ==
    (last.op = "open" /\ last.args # NoOpenArgs) =>
        LET names == ResolvedNames(last.args)
            collide == \E i, j \in 1..3 : i # j /\ names[i] = names[j]
            invalid == last.args.mode \notin {"r", "w"}
        IN /\ (invalid \/ collide) => last.err # "ok"
           /\ ( /\ ~invalid
                /\ ~collide
                /\ (last.args.mode = "r" => metadata_file.exists \/ log_file.exists) )
              => last.err = "ok"


\* C12: a read-only session that opens at any point between the steps of the
\* writer reads a complete metadata snapshot or finds no metadata file: its
\* open never meets an empty or partly written document.
C12_AtomicMetadataReplace ==
    (last.op = "open" /\ last.sess = "r") => last.err # "ValueError"



IsPrefix(a, b) == Len(a) <= Len(b) /\ SubSeq(b, 1, Len(a)) = a

\* C13: within one write-only session every operation leaves the bytes the
\* binary data file and the structural log already hold in place: the contents
\* before a step are a prefix of the contents after it.
C13_AppendOnly ==
    [][opens' = opens =>
          /\ IsPrefix(binary_file.data, binary_file'.data)
          /\ IsPrefix(log_file.data, log_file'.data)]_vars

\* a second array record on disk behind the first, written out by a flush
C13_Witness ==
    /\ last.op = "flush" /\ last.err = "ok"
    /\ Len(Stored) = 2
    /\ Len(binary_file.data) = Stored[2].array.data_offset + Stored[2].array.bytes_len
    /\ ~sessions["w"].autoflush

\* the array entries of a metadata document, those of its children included
RECURSIVE DocArrays(_)
DocArrays(doc) ==
    {doc.arrays[i] : i \in 1..Len(doc.arrays)}
    \cup UNION {DocArrays(doc.children[i]) : i \in 1..Len(doc.children)}

\* C14: at every point where a read-only session can open, every array handle
\* in the metadata file lies within the flushed bytes of the binary data file:
\* data_offset + bytes_len is at most the length of the file on disk.
C14_MetadataWithinFlushed ==
    (metadata_file.exists /\ DOMAIN metadata_file.doc # {}) =>
        \A a \in DocArrays(metadata_file.doc) :
            a.data_offset + a.data_bytes_len <= Len(binary_file.data)


\* C15: a create_group call that raises (an empty path, a path with "//")
\* leaves the flat group map and every group's child mapping as they were:
\* no intermediate group is created.
C15_FailedCreateGroupNoMutation ==
    [][ \A sid \in Sids :
          (last'.op = "create_group" /\ last'.sess = sid /\ last'.err # "ok")
          => /\ sessions'[sid].all_groups = sessions[sid].all_groups
             /\ sessions'[sid].groups = sessions[sid].groups ]_vars

\* C16: every group a session holds has a path that starts with "/" and has
\* no empty segment, every group but the root has a name, and no two groups
\* have the same path: only the root has the path "/".
C16_PathsWellFormedUnique ==
    \A sid \in Sids :
        LET groups == sessions[sid].groups
        IN /\ \A gid \in 1..Len(groups) :
                /\ groups[gid].path # <<>> /\ groups[gid].path[1] = 47
                /\ gid # 1 => WellFormed(groups[gid].path) /\ groups[gid].name # <<>>
           /\ \A g1, g2 \in 1..Len(groups) :
                groups[g1].path = groups[g2].path => g1 = g2


\* C17: a set_attr that raises because the class of the value is not allowed
\* changes nothing: the attributes of the group (a previous value under the
\* same name included), the binary data file, the structural log and the
\* dirty flag are as before the call.
C17_RejectedSetAttrNoChange ==
    [][(last'.op = "set_attr" /\ last'.err = "ValueError")
       => /\ sessions' = sessions
          /\ binary_file' = binary_file
          /\ log_file' = log_file
          /\ metadata_file' = metadata_file ]_vars

\* a value of another class rejected for a name that holds a text already,
\* in a session with unflushed bytes
C17_Witness ==
    /\ last.op = "set_attr" /\ last.sess = "w" /\ last.err = "ValueError"
    /\ last.value \in {NdArray, Dummy}
    /\ DictHas(sessions["w"].groups[last.group].attrs, last.name)
    /\ DictGet(sessions["w"].groups[last.group].attrs, last.name) = Text
    /\ sessions["w"].dirty


\* what has been written to the log stream of the write-only session: the
\* bytes in the file and, behind them, the bytes still buffered
LogStream == log_file.data \o sessions["w"].log_buf

\* C18: every successful create_array and every successful set_attr of a
\* write-only session appends one record that ends with a newline to the
\* structural log; for an array it is the array record followed by the offset.
C18_LogComplete ==
    [][ ( /\ last'.op \in {"create_array", "group.create_array", "set_attr"}
          /\ last'.sess = "w"
          /\ last'.err = "ok" )
        => LET before == LogStream
               after == LogStream'
           IN /\ IsPrefix(before, after)
              /\ Len(after) > Len(before)
              /\ after[Len(after)] = 10
              /\ last'.op # "set_attr" =>
                    after = before
                            \o RecordStart(sessions'["w"].groups[last'.group].name,
                                           last'.name, last'.data)
                            \o PackUnsignedLong(last'.array.record_offset)
                            \o NEWLINE ]_vars


\* what has been written to the binary stream of the write-only session
BinaryStream == binary_file.data \o sessions["w"].binary_buf

\* the group field of the record at record_offset: the bytes behind the tag
\* and the length of the field
GroupField(stream, record_offset) ==
    LET first == record_offset + Len(ARR_TAG) + PACK_UNSIGNED_LONG_SIZE
        n == FromLittleEndian(SubSeq(stream, record_offset + Len(ARR_TAG) + 1, first))
    IN SubSeq(stream, first + 1, first + n)

\* C19: the group field of every array record is the absolute path of the
\* group the array was written on, so records written on "/A/B" and on "/C/B"
\* differ in it.
C19_GroupFieldIsPath ==
    \A i \in 1..Len(written) :
        written[i].group # 0 =>
            GroupField(BinaryStream, written[i].array.record_offset)
                = Encode(sessions["w"].groups[written[i].group].path)

\* the record header of an array with every length, count and dimension as
\* an unsigned little-endian integer of eight bytes
RecordStartWide(group_name, array_name, data) ==
    ARR_TAG
    \o LittleEndian(Len(Encode(group_name)), 8) \o Encode(group_name) \o COLON
    \o LittleEndian(Len(Encode(array_name)), 8) \o Encode(array_name) \o COLON
    \o LittleEndian(Len(ToBytesC(data)), 8) \o COLON
    \o LittleEndian(Len(Encode(DtypeStr(data.dtype))), 8)
    \o Encode(DtypeStr(data.dtype)) \o COLON
    \o LittleEndian(Len(data.shape), 8)
    \o Flatten([i \in 1..Len(data.shape) |-> LittleEndian(data.shape[i], 8)])
    \o COLON \o COLON \o OrderByte(OrderOf(data))

\* C20: every length, count and dimension field of an array record is an
\* unsigned little-endian integer of eight bytes: the header of each record
\* written is the header with eight-byte fields.
C20_LengthFieldsEightBytes ==
    \A i \in 1..Len(written) :
        written[i].group # 0 =>
            LET a == written[i].array
            IN SubSeq(BinaryStream, a.record_offset + 1, a.data_offset)
                 = RecordStartWide(sessions["w"].groups[written[i].group].name,
                                   a.name, written[i].data)


\* C21: after close() on a session every further create_group, create_array,
\* set_attr, flush, read_numpy and close on it, its groups and its handles
\* fails, and changes neither the group tree nor any of the three files.
C21_ClosedIsTerminal ==
    [][ \A sid \in Sids :
          ( /\ sessions[sid].state = "closed"
            /\ last'.sess = sid
            /\ last'.op \in WriteCalls \cup {"set_attr", "flush", "read_numpy", "close"} )
          => /\ last'.err # "ok"
             /\ sessions'[sid].groups = sessions[sid].groups
             /\ sessions'[sid].all_groups = sessions[sid].all_groups
             /\ metadata_file' = metadata_file
             /\ binary_file' = binary_file
             /\ log_file' = log_file ]_vars

\* C22: a write-only session opened with write_metadata=False never creates
\* the metadata file, whatever it creates, writes, flushes with flush() and
\* closes, and a read-only session opened on its files holds the root alone.
C22_NoMetadataWhenDisabled ==
    (sessions["w"].state # "none" /\ ~sessions["w"].write_metadata)
    => /\ ~metadata_file.exists
       /\ sessions["r"].state # "none"
          => /\ Len(sessions["r"].groups) = 1
             /\ sessions["r"].groups[1].attrs = <<>>
             /\ sessions["r"].groups[1].arrays = <<>>

====
